---- MODULE Spec2Model ----
(***************************************************************************)
(* CleanTasks: the recurring-task reset engine (checkAndResetTasks) and    *)
(* the handlers of App.tsx that read or write `completed` and              *)
(* `lastCompletedAt`.                                                      *)
(*                                                                         *)
(* Time.  An instant is an integer: the number of whole hours since        *)
(* 2024-01-01T00:00Z.  Every comparison of the engine is on hours, days or *)
(* calendar fields, so Date.getTime() is modelled in hours and the         *)
(* constant 24*60*60*1000 of the source is 24.  Local time is UTC plus     *)
(* TZOffsetHours (a zone without daylight saving).                         *)
(*                                                                         *)
(* Objects.  A JavaScript object is a function from field names to         *)
(* values; an optional field that is absent (or undefined, which           *)
(* JSON.stringify drops and every test of the source treats alike) is not  *)
(* in the DOMAIN.                                                          *)
(***************************************************************************)
EXTENDS Integers, Sequences, FiniteSets, TLC

VARIABLES
    tasks,      \* React state `tasks` (App.tsx:93); in EvalSpec the list L given to the evaluator
    stored,     \* AsyncStorage item 'tasks': <<>> when never written, <<list>> otherwise
    now,        \* the system clock, read by `new Date()` / Date.now()
    nextId,     \* distinguishes successive readings of Date.now() in addTask
    loading,    \* loadTasks between its getItem and its setTasks: <<>> or <<value read>>
    alert,      \* the 'Delete Task' dialog: << >> or <<[id, tasks]>>, the id and the list its handler closes over
    saved,      \* whether the handler that ran last called saveTasks
    out1,       \* EvalSpec: outcome of checkAndResetTasks(L) at instant `now`
    out2,       \* EvalSpec: outcome of checkAndResetTasks applied to out1's list at `now`
    outU        \* UtilSpec: outcome of the scheduling utility's checkAndResetTasks(L) at `now`

vars == <<tasks, stored, now, nextId, loading, alert, saved, out1, out2, outU>>

----------------------------------------------------------------------------
(* Bounds of the model *)

\* local zone: hours east of UTC
TZOffsetHours == 1
\* longest list of mixed tasks given to the evaluator in EvalSpec
MaxLen == 2
\* number of tasks ever added, hence the longest list the application holds
MaxAdds == 2

----------------------------------------------------------------------------
(* JavaScript objects *)

Has(obj, f) == f \in DOMAIN obj

SetField(obj, f, v) == [g \in (DOMAIN obj) \cup {f} |-> IF g = f THEN v ELSE obj[g]]

DelField(obj, f) == [g \in (DOMAIN obj) \ {f} |-> obj[g]]

----------------------------------------------------------------------------
(* JavaScript strings *)

startsWith(s, p) == Len(s) >= Len(p) /\ SubSeq(s, 1, Len(p)) = p

endsWith(s, p) == Len(s) >= Len(p) /\ SubSeq(s, Len(s) - Len(p) + 1, Len(s)) = p

includes(s, p) == \E i \in 1..(Len(s) - Len(p) + 1) : SubSeq(s, i, i + Len(p) - 1) = p

\* s.split(':')[0]: the part of s before its first ':' (all of s when it has none)
RECURSIVE splitColonFirstFrom(_, _)
splitColonFirstFrom(s, i) ==
    IF i > Len(s) \/ SubSeq(s, i, i) = ":" THEN SubSeq(s, 1, i - 1)
    ELSE splitColonFirstFrom(s, i + 1)

splitColonFirst(s) == splitColonFirstFrom(s, 1)

DigitChars == <<"0", "1", "2", "3", "4", "5", "6", "7", "8", "9">>

IsDigit(c) == \E d \in 1..10 : DigitChars[d] = c

DigitValue(c) == (CHOOSE d \in 1..10 : DigitChars[d] = c) - 1

\* value of the longest run of decimal digits of s that starts at position i, given
\* the value acc of the digits before i
RECURSIVE digitsFrom(_, _, _)
digitsFrom(s, i, acc) ==
    IF i <= Len(s) /\ IsDigit(SubSeq(s, i, i))
    THEN digitsFrom(s, i + 1, acc * 10 + DigitValue(SubSeq(s, i, i)))
    ELSE acc

\* parseInt(s) for a string without sign or leading blanks: <<n>> for the number n
\* read from the leading digits, << >> for NaN (no leading digit)
parseInt(s) ==
    IF Len(s) >= 1 /\ IsDigit(SubSeq(s, 1, 1)) THEN <<digitsFrom(s, 1, 0)>> ELSE << >>

\* h >= p where p is a parseInt result: every comparison with NaN is false
GreaterOrEqualNum(h, p) == p # << >> /\ h >= p[1]

----------------------------------------------------------------------------
(* The calendar behind Date: years 2024 and 2025, months 0..11 *)

Years == 2024..2025

IsLeap(y) == (y % 4 = 0 /\ y % 100 # 0) \/ y % 400 = 0

DaysInMonth(y, m) ==
    IF m = 1 THEN (IF IsLeap(y) THEN 29 ELSE 28)
    ELSE IF m \in {3, 5, 8, 10} THEN 30 ELSE 31

\* days of year y before its month m (m = 12: the whole year)
RECURSIVE DaysBeforeMonth(_, _)
DaysBeforeMonth(y, m) ==
    IF m = 0 THEN 0 ELSE DaysBeforeMonth(y, m - 1) + DaysInMonth(y, m - 1)

\* days from 2024-01-01 to 1 January of year y
RECURSIVE DaysBeforeYear(_)
DaysBeforeYear(y) ==
    IF y <= 2024 THEN 0 ELSE DaysBeforeYear(y - 1) + DaysBeforeMonth(y - 1, 12)

\* number of the local day y-m-d counted from 2024-01-01 (d = 0: the day before the 1st)
DayNumber(y, m, d) == DaysBeforeYear(y) + DaysBeforeMonth(y, m) + (d - 1)

LastDay == DayNumber(2025, 12, 0)

RECURSIVE CivilFrom(_, _, _)
CivilFrom(y, m, n) ==
    IF n < DaysInMonth(y, m) THEN [y |-> y, m |-> m, d |-> n + 1]
    ELSE IF m = 11 THEN CivilFrom(y + 1, 0, n - DaysInMonth(y, m))
    ELSE CivilFrom(y, m + 1, n - DaysInMonth(y, m))

\* year, month and day of month of day number n
Civil == [n \in 0..LastDay |-> CivilFrom(2024, 0, n)]

\* new Date(year, month, day): local midnight of that day, as an instant
newDate(y, m, d) == DayNumber(y, m, d) * 24 - TZOffsetHours

\* the instant of local wall-clock hour h of day y-m-d
At(y, m, d, h) == newDate(y, m, d) + h

LocalDay(t) == (t + TZOffsetHours) \div 24

getTime(t) == t

getHours(t) == (t + TZOffsetHours) % 24

\* 2024-01-01 is a Monday
getDay(t) == (LocalDay(t) + 1) % 7

getDate(t) == Civil[LocalDay(t)].d

getMonth(t) == Civil[LocalDay(t)].m

getFullYear(t) == Civil[LocalDay(t)].y

\* Date.prototype.toISOString: the UTC fields of the instant
toISOString(t) ==
    [y |-> Civil[t \div 24].y, m |-> Civil[t \div 24].m, d |-> Civil[t \div 24].d,
     h |-> t % 24]

\* new Date(isoString): the instant the UTC fields name
parseISO(s) == DayNumber(s.y, s.m, s.d) * 24 + s.h

----------------------------------------------------------------------------
(* checkAndResetTasks of App.tsx: the per-kind reset predicates.  `t` is   *)
(* the instant read by `new Date()` at the start of the call and `last`    *)
(* the instant parsed from task.lastCompletedAt.                           *)

DayNames == <<"sunday", "monday", "tuesday", "wednesday", "thursday", "friday", "saturday">>

\* getDayFromType: << >> for null, <<n>> for the weekday whose name ends the kind
getDayFromType(type) ==
    IF \E i \in 1..7 : endsWith(type, DayNames[i])
    THEN <<(CHOOSE i \in 1..7 : endsWith(type, DayNames[i])) - 1>>
    ELSE << >>

\* getOccurrence: << >> for null, <<5>> for "last"
getOccurrence(type) ==
    IF includes(type, "first") THEN <<1>>
    ELSE IF includes(type, "second") THEN <<2>>
    ELSE IF includes(type, "third") THEN <<3>>
    ELSE IF includes(type, "fourth") THEN <<4>>
    ELSE IF includes(type, "last") THEN <<5>>
    ELSE << >>

\* parseInt(schedule.time?.split(':')[0] || '9')
thresholdHour(schedule) ==
    IF ~Has(schedule, "time") THEN parseInt("9")
    ELSE IF splitColonFirst(schedule.time) = "" THEN parseInt("9")
    ELSE parseInt(splitColonFirst(schedule.time))

\* variant: the boundary instant itself resets
resetDailyInclusive(t, last) == getTime(t) - getTime(last) >= 24

resetDaily(t, last) == getTime(t) - getTime(last) > 24

\* variant: another calendar day instead of another weekday
resetWeekdaysByDate(t, last) ==
    IF getDay(t) >= 1 /\ getDay(t) <= 5 THEN LocalDay(t) # LocalDay(last) ELSE FALSE

resetWeekdays(t, last) ==
    IF getDay(t) >= 1 /\ getDay(t) <= 5 THEN getDay(t) # getDay(last) ELSE FALSE

resetWeekends(t, last) ==
    IF getDay(t) = 0 \/ getDay(t) = 6 THEN getDay(t) # getDay(last) ELSE FALSE

\* variant: on the target day the hour must be past the threshold hour, as in the
\* scheduling utility
resetWeeklyNamedStrict(t, schedule) ==
    LET targetDay == getDayFromType(schedule.type)
    IN  IF targetDay # << >>
        THEN LET daysSinceSchedule == (getDay(t) - targetDay[1] + 7) % 7
             IN  \/ daysSinceSchedule > 0
                 \/ /\ daysSinceSchedule = 0
                    /\ thresholdHour(schedule) # << >>
                    /\ getHours(t) > thresholdHour(schedule)[1]
        ELSE FALSE

resetWeeklyNamed(t, schedule) ==
    LET targetDay == getDayFromType(schedule.type)
    IN  IF targetDay # << >>
        THEN LET daysSinceSchedule == (getDay(t) - targetDay[1] + 7) % 7
             IN  \/ daysSinceSchedule > 0
                 \/ /\ daysSinceSchedule = 0
                    /\ GreaterOrEqualNum(getHours(t), thresholdHour(schedule))
        ELSE FALSE

weeksSince(t, last) ==
    LET daysSince == (getTime(t) - getTime(last)) \div 24
    IN  daysSince \div 7

\* variant: calendar days between the two dates instead of elapsed whole days
resetBiweeklyCalendarDays(t, last) == (LocalDay(t) - LocalDay(last)) \div 7 >= 2

resetBiweekly(t, last) == weeksSince(t, last) >= 2

\* variant: Math.floor instead of Math.ceil
weekOfYearFloor(t) == (getTime(t) - newDate(getFullYear(t), 0, 1)) \div (7 * 24)

\* Math.ceil((d - new Date(d.getFullYear(), 0, 1)) / (7 days))
weekOfYear(t) == -((-(getTime(t) - newDate(getFullYear(t), 0, 1))) \div (7 * 24))

isEven(weekNum) == weekNum % 2 = 0

\* variant: an even week other than the week of the last completion
resetBiweeklyEvenOtherWeek(t, last) ==
    isEven(weekOfYear(t)) /\ weekOfYear(t) # weekOfYear(last)

resetBiweeklyEven(t, last) == isEven(weekOfYear(t)) /\ ~isEven(weekOfYear(last))

resetBiweeklyOdd(t, last) == ~isEven(weekOfYear(t)) /\ isEven(weekOfYear(last))

\* variant: no test of the day of the last completion, as in the scheduling utility
resetMonthlyUnguarded(t, last) == getDate(t) = 1

resetMonthly(t, last) == getDate(t) = 1 /\ getDate(last) # 1

\* variant: a last completion in another month also counts
resetMonthly15OrOtherMonth(t, last) ==
    /\ getDate(t) >= 15
    /\ (getDate(last) < 15 \/ getMonth(last) # getMonth(t) \/ getFullYear(last) # getFullYear(t))

resetMonthly15(t, last) == getDate(t) >= 15 /\ getDate(last) < 15

\* variant: the window of a 30-day month in every month
resetMonthlyLastThirty(t) == getDate(t) >= 30 - 2

resetMonthlyLast(t) ==
    LET daysInMonth == getDate(newDate(getFullYear(t), getMonth(t) + 1, 0))
    IN  getDate(t) >= daysInMonth - 2

\* (7 - new Date(year, month, 1).getDay() + targetDay) % 7 + 1, for the month evaluated
\* (line 247) and for the month of the last completion (line 269)
firstOccurrenceIn(year, month, targetDay) ==
    ((7 - getDay(newDate(year, month, 1)) + targetDay) % 7) + 1

targetDateIn(year, month, targetDay, occurrence) ==
    LET daysInMonth == getDate(newDate(year, month + 1, 0))
        computed == firstOccurrenceIn(year, month, targetDay)
        firstOccurrence == IF computed < 1 THEN computed + 7 ELSE computed
    IN  IF occurrence = 5
        THEN daysInMonth - ((getDay(newDate(year, month, daysInMonth)) - targetDay + 7) % 7)
        ELSE firstOccurrence + (occurrence - 1) * 7

\* variant: no test of the last completion once the target date is reached
resetNthWeekdayAnyLast(t, last, type) ==
    LET targetDay  == getDayFromType(type)
        occurrence == getOccurrence(type)
    IN  IF targetDay # << >> /\ occurrence # << >>
        THEN getDate(t) >= targetDateIn(getFullYear(t), getMonth(t), targetDay[1], occurrence[1])
        ELSE FALSE

resetNthWeekday(t, last, type) ==
    LET targetDay  == getDayFromType(type)
        occurrence == getOccurrence(type)
    IN  IF targetDay # << >> /\ occurrence # << >>
        THEN IF getDate(t) >= targetDateIn(getFullYear(t), getMonth(t), targetDay[1], occurrence[1])
             THEN IF getMonth(last) # getMonth(t) \/ getFullYear(last) # getFullYear(t)
                  THEN TRUE
                  ELSE LET lastFirstOccurrence ==
                               firstOccurrenceIn(getFullYear(last), getMonth(last), targetDay[1])
                           lastTargetDate == lastFirstOccurrence + (occurrence[1] - 1) * 7
                       IN  getDate(last) < lastTargetDate
             ELSE FALSE
        ELSE FALSE

\* variant: another month instead of another quarter
resetQuarterlyByMonth(t, last) == getMonth(t) # getMonth(last)

\* variant: the quarter of another year is another quarter
resetQuarterlyWithYear(t, last) ==
    \/ (getMonth(t) \div 3) # (getMonth(last) \div 3)
    \/ getFullYear(t) # getFullYear(last)

resetQuarterly(t, last) == (getMonth(t) \div 3) # (getMonth(last) \div 3)

resetYearly(t, last) == getFullYear(t) # getFullYear(last)

\* variant: a kind no branch names is handled as 'daily'
shouldResetDefaultDaily(t, last, schedule) ==
    LET scheduleType == schedule.type
    IN  IF scheduleType = "weekdays" THEN resetWeekdays(t, last)
        ELSE IF scheduleType = "weekends" THEN resetWeekends(t, last)
        ELSE IF startsWith(scheduleType, "weekly_") THEN resetWeeklyNamed(t, schedule)
        ELSE IF scheduleType = "biweekly" THEN resetBiweekly(t, last)
        ELSE IF scheduleType = "biweekly_even" THEN resetBiweeklyEven(t, last)
        ELSE IF scheduleType = "biweekly_odd" THEN resetBiweeklyOdd(t, last)
        ELSE IF scheduleType = "monthly" THEN resetMonthly(t, last)
        ELSE IF scheduleType = "monthly_15" THEN resetMonthly15(t, last)
        ELSE IF scheduleType = "monthly_last" THEN resetMonthlyLast(t)
        ELSE IF \/ startsWith(scheduleType, "first_") \/ startsWith(scheduleType, "second_")
                \/ startsWith(scheduleType, "third_") \/ startsWith(scheduleType, "fourth_")
                \/ startsWith(scheduleType, "last_")
             THEN resetNthWeekday(t, last, scheduleType)
        ELSE IF scheduleType = "quarterly" THEN resetQuarterly(t, last)
        ELSE IF scheduleType = "yearly" THEN resetYearly(t, last)
        ELSE resetDaily(t, last)

\* the if / else-if chain of App.tsx:178-285, for a schedule whose type is a string
shouldReset(t, last, schedule) ==
    LET scheduleType == schedule.type
    IN  IF scheduleType = "daily" THEN resetDaily(t, last)
        ELSE IF scheduleType = "weekdays" THEN resetWeekdays(t, last)
        ELSE IF scheduleType = "weekends" THEN resetWeekends(t, last)
        ELSE IF startsWith(scheduleType, "weekly_") THEN resetWeeklyNamed(t, schedule)
        ELSE IF scheduleType = "biweekly" THEN resetBiweekly(t, last)
        ELSE IF scheduleType = "biweekly_even" THEN resetBiweeklyEven(t, last)
        ELSE IF scheduleType = "biweekly_odd" THEN resetBiweeklyOdd(t, last)
        ELSE IF scheduleType = "monthly" THEN resetMonthly(t, last)
        ELSE IF scheduleType = "monthly_15" THEN resetMonthly15(t, last)
        ELSE IF scheduleType = "monthly_last" THEN resetMonthlyLast(t)
        ELSE IF \/ startsWith(scheduleType, "first_") \/ startsWith(scheduleType, "second_")
                \/ startsWith(scheduleType, "third_") \/ startsWith(scheduleType, "fourth_")
                \/ startsWith(scheduleType, "last_")
             THEN resetNthWeekday(t, last, scheduleType)
        ELSE IF scheduleType = "quarterly" THEN resetQuarterly(t, last)
        ELSE IF scheduleType = "yearly" THEN resetYearly(t, last)
        ELSE FALSE

\* the three early returns of the map callback (App.tsx:149-153): the task is a
\* candidate for a reset
isCandidate(task) ==
    /\ Has(task, "schedule")
    /\ ~(Has(task.schedule, "type") /\ task.schedule.type = "none")
    /\ task.completed
    /\ Has(task, "lastCompletedAt")

\* scheduleType.startsWith(...) on a schedule without a type: the first method call
\* on `undefined` raises a TypeError and the map callback never returns
raisesTypeError(task) == isCandidate(task) /\ ~Has(task.schedule, "type")

\* variant: the copy also drops the completion stamp, as toggleTask does
resetCopyClearingStamp(task) == DelField(SetField(task, "completed", FALSE), "lastCompletedAt")

\* { ...task, completed: false }
resetCopy(task) == SetField(task, "completed", FALSE)

\* variant: no test of `completed`, and the flag is inverted instead of cleared
evaluateTaskFlipping(task, t) ==
    IF ~(Has(task, "schedule") /\ Has(task.schedule, "type") /\ task.schedule.type # "none"
         /\ Has(task, "lastCompletedAt"))
    THEN task
    ELSE IF shouldReset(t, parseISO(task.lastCompletedAt), task.schedule)
    THEN SetField(task, "completed", ~task.completed)
    ELSE task

\* variant: a task never completed is measured from the epoch, new Date(lastCompletedAt || 0)
evaluateTaskEpochDefault(task, t) ==
    IF ~(Has(task, "schedule") /\ Has(task.schedule, "type") /\ task.schedule.type # "none"
         /\ task.completed)
    THEN task
    ELSE IF shouldReset(t, IF Has(task, "lastCompletedAt") THEN parseISO(task.lastCompletedAt) ELSE 0,
                        task.schedule)
    THEN resetCopy(task)
    ELSE task

\* the map callback for a task that raises nothing
evaluateTask(task, t) ==
    IF ~isCandidate(task) THEN task
    ELSE IF shouldReset(t, parseISO(task.lastCompletedAt), task.schedule) THEN resetCopy(task)
    ELSE task

\* outcome of a call: the list returned, or the exception that leaves the call
Returned(list) == [status |-> "returned", value |-> list]

Threw == [status |-> "threw", value |-> << >>]

NotRun == [status |-> "notrun", value |-> << >>]

RECURSIVE keepUnreset(_, _)
keepUnreset(list, t) ==
    IF list = << >> THEN << >>
    ELSE IF evaluateTask(Head(list), t) = Head(list)
    THEN <<Head(list)>> \o keepUnreset(Tail(list), t)
    ELSE keepUnreset(Tail(list), t)

\* variant: a filter instead of a map, the tasks due for a reset are dropped
checkAndResetTasksFilter(taskList, t) ==
    IF \E i \in 1..Len(taskList) : raisesTypeError(taskList[i]) THEN Threw
    ELSE Returned(keepUnreset(taskList, t))

checkAndResetTasks(taskList, t) ==
    IF \E i \in 1..Len(taskList) : raisesTypeError(taskList[i]) THEN Threw
    ELSE Returned([i \in 1..Len(taskList) |-> evaluateTask(taskList[i], t)])

----------------------------------------------------------------------------
(* checkAndResetTasks of the scheduling utility (src/unnamed/part_000):    *)
(* the switch on schedule.type, with the day of the legacy 'weekly' kind   *)
(* in schedule.dayOfWeek and that of 'monthly' in schedule.dayOfMonth      *)

utilResetDaily(t, last) == getTime(t) - getTime(last) > 24

\* daysSinceSchedule * 24 + (now.getHours() - parseInt(schedule.time?.split(':')[0] || '9')):
\* << >> for NaN
hoursSinceSchedule(t, schedule, daysSinceSchedule) ==
    IF thresholdHour(schedule) = << >> THEN << >>
    ELSE <<daysSinceSchedule * 24 + (getHours(t) - thresholdHour(schedule)[1])>>

\* p > 0 where p is a number or NaN
GreaterThanZero(p) == p # << >> /\ p[1] > 0

\* cases 'weekly', 'weekly_monday', 'weekly_friday', for dayOfWeek in 0..6
utilResetWeekly(t, schedule) ==
    IF Has(schedule, "dayOfWeek")
    THEN LET daysSinceSchedule == (getDay(t) - schedule.dayOfWeek + 7) % 7
         IN  \/ daysSinceSchedule > 0
             \/ /\ daysSinceSchedule = 0
                /\ GreaterThanZero(hoursSinceSchedule(t, schedule, daysSinceSchedule))
    ELSE FALSE

\* Math.floor((now.getTime() - lastCompleted.getTime()) / (14 * 24 * 60 * 60 * 1000))
utilWeeksSince(t, last) == (getTime(t) - getTime(last)) \div (14 * 24)

\* variant: two blocks of 14 days
utilResetBiweeklyTwoBlocks(t, last) == utilWeeksSince(t, last) >= 2

utilResetBiweekly(t, last) == utilWeeksSince(t, last) >= 1

utilResetMonthly(t, last, schedule) ==
    IF ~Has(schedule, "dayOfMonth") THEN FALSE
    ELSE IF schedule.dayOfMonth = 1 THEN getDate(t) = 1
    ELSE IF schedule.dayOfMonth = 31
    THEN LET daysInMonth == getDate(newDate(getFullYear(t), getMonth(t) + 1, 0))
         IN  \/ daysInMonth >= 31 /\ getDate(t) >= 31
             \/ getDate(t) < getDate(last) /\ getDate(t) >= daysInMonth - 2
    ELSE IF schedule.dayOfMonth # 0
    THEN getDate(t) >= schedule.dayOfMonth /\ getDate(last) < schedule.dayOfMonth
    ELSE FALSE

\* variant: the last completion is always measured against the first Friday
utilResetSecondFridayFirstOnly(t, last) ==
    LET firstDayOfMonth == newDate(getFullYear(t), getMonth(t), 1)
        firstFriday == newDate(getFullYear(t), getMonth(t),
                               ((5 - getDay(firstDayOfMonth) + 7) % 7) + 1)
        secondFriday == firstFriday + 7 * 24
    IN  IF getTime(t) >= getTime(secondFriday)
        THEN getTime(last) < getTime(firstFriday)
        ELSE FALSE

utilResetSecondFriday(t, last) ==
    LET firstDayOfMonth == newDate(getFullYear(t), getMonth(t), 1)
        firstFriday == newDate(getFullYear(t), getMonth(t),
                               ((5 - getDay(firstDayOfMonth) + 7) % 7) + 1)
        secondFriday == firstFriday + 7 * 24
    IN  IF getTime(t) >= getTime(secondFriday)
        THEN LET lastResetWeek ==
                     IF getTime(last) >= getTime(firstFriday) THEN secondFriday ELSE firstFriday
             IN  getTime(last) < getTime(lastResetWeek)
        ELSE FALSE

utilResetWeekdays(t, last) ==
    IF getDay(t) >= 1 /\ getDay(t) <= 5 THEN getDay(t) # getDay(last) ELSE FALSE

utilResetWeekends(t, last) ==
    IF getDay(t) = 0 \/ getDay(t) = 6 THEN getDay(t) # getDay(last) ELSE FALSE

\* the switch of part_000:35-90; a kind no case names leaves shouldReset false
utilShouldReset(t, last, schedule) ==
    IF ~Has(schedule, "type") THEN FALSE
    ELSE IF schedule.type = "daily" THEN utilResetDaily(t, last)
    ELSE IF schedule.type \in {"weekly", "weekly_monday", "weekly_friday"}
    THEN utilResetWeekly(t, schedule)
    ELSE IF schedule.type = "biweekly" THEN utilResetBiweekly(t, last)
    ELSE IF schedule.type = "monthly" THEN utilResetMonthly(t, last, schedule)
    ELSE IF schedule.type = "second_friday" THEN utilResetSecondFriday(t, last)
    ELSE IF schedule.type = "weekdays" THEN utilResetWeekdays(t, last)
    ELSE IF schedule.type = "weekends" THEN utilResetWeekends(t, last)
    ELSE FALSE

\* the map callback of part_000:25-96
utilEvaluateTask(task, t) ==
    IF ~Has(task, "schedule") THEN task
    ELSE IF Has(task.schedule, "type") /\ task.schedule.type = "none" THEN task
    ELSE IF ~task.completed THEN task
    ELSE IF ~Has(task, "lastCompletedAt") THEN task
    ELSE IF utilShouldReset(t, parseISO(task.lastCompletedAt), task.schedule)
    THEN SetField(task, "completed", FALSE)
    ELSE task

utilCheckAndResetTasks(taskList, t) ==
    Returned([i \in 1..Len(taskList) |-> utilEvaluateTask(taskList[i], t)])

----------------------------------------------------------------------------
(* Tasks and the inputs the model draws *)

\* the ids of SCHEDULE_PRESETS
PresetKinds ==
    {"none", "daily", "weekdays", "weekends",
     "weekly_sunday", "weekly_monday", "weekly_tuesday", "weekly_wednesday",
     "weekly_thursday", "weekly_friday", "weekly_saturday",
     "biweekly", "biweekly_even", "biweekly_odd",
     "monthly", "monthly_15", "monthly_last",
     "first_sunday", "first_monday", "first_tuesday", "first_wednesday",
     "first_thursday", "first_friday", "first_saturday",
     "second_sunday", "second_monday", "second_tuesday", "second_wednesday",
     "second_thursday", "second_friday", "second_saturday",
     "third_friday", "last_sunday", "last_monday", "last_friday",
     "quarterly", "yearly"}

\* the kinds declared by the Task interface that no preset carries
LegacyKinds == {"weekly", "custom"}

\* kind strings of neither list
ForeignKinds ==
    {"fortnightly_blah", "last_day", "weekly_blah", "first_blah", "Daily", "",
     "fourth_friday", "third_monday", "last_saturday", "weekly_notfriday"}

WeeklyNamedKinds == {k \in PresetKinds : startsWith(k, "weekly_")}

\* values of the free-text time input
TimeInputs == {"09:00", "10:00", "abc", ""}

\* { id, text, completed } with the optional schedule and lastCompletedAt
\* (each given as << >> when absent, <<v>> when present)
mkTask(id, text, completed, schedule, lastCompletedAt) ==
    LET base == [id |-> id, text |-> text, completed |-> completed]
        withS == IF schedule = << >> THEN base ELSE SetField(base, "schedule", schedule[1])
    IN  IF lastCompletedAt = << >> THEN withS
        ELSE SetField(withS, "lastCompletedAt", lastCompletedAt[1])

\* evaluation instants and completion instants of EvalSpec (local wall clock)
EvalInstants ==
    {At(2024, 0, 1, 9),     \* Mon 1 Jan 2024
     At(2024, 0, 2, 9),     \* Tue 2 Jan 2024
     At(2024, 0, 5, 8),     \* Fri 5 Jan 2024 08:00
     At(2024, 0, 5, 9),
     At(2024, 0, 5, 10),
     At(2024, 0, 6, 10),    \* Sat, 24 h later
     At(2024, 0, 6, 11),    \* 25 h later
     At(2024, 0, 14, 9),    \* Sun 14 Jan
     At(2024, 0, 19, 9),    \* Fri, 14 days less one hour later
     At(2024, 0, 19, 10),   \* Fri, 14 days later
     At(2024, 0, 26, 10),   \* Fri 26 Jan, the last Friday of January 2024
     At(2024, 0, 30, 9),    \* third day from the end of a 31-day month
     At(2024, 1, 1, 9),     \* Thu 1 Feb 2024
     At(2024, 1, 27, 9),    \* Tue 27 Feb 2024, third day from the end of a 29-day month
     At(2024, 2, 15, 9),    \* Fri 15 Mar 2024
     At(2024, 3, 12, 9),    \* second Friday of April 2024
     At(2024, 3, 28, 9),    \* Sun 28 Apr 2024, third day from the end of a 30-day month
     At(2025, 1, 26, 9)}    \* Wed 26 Feb 2025, third day from the end of a 28-day month

\* schedules as addTask and updateTask write them, with every kind string
WrittenSchedules ==
    {[type |-> k, time |-> "09:00"] : k \in PresetKinds \cup LegacyKinds \cup ForeignKinds}

\* day-of-week schedules with every value of the time field, and without it
WeeklySchedules ==
    {[type |-> k, time |-> tm] : k \in WeeklyNamedKinds, tm \in TimeInputs}
        \cup {[type |-> k] : k \in WeeklyNamedKinds}

\* schedule objects without a kind
MalformedSchedules == {[time |-> "09:00"], [dayOfWeek |-> 5]}

ScheduleInputs ==
    {<<sch>> : sch \in WrittenSchedules \cup WeeklySchedules \cup MalformedSchedules}
        \cup {<< >>}

LastInputs == {<<toISOString(t)>> : t \in EvalInstants} \cup {<< >>}

\* the single tasks given to the evaluator
WideTasks ==
    {mkTask(1, "wash", c, sch, lst) : c \in BOOLEAN, sch \in ScheduleInputs, lst \in LastInputs}

\* the tasks that make the lists of several tasks
NarrowTasks ==
    {mkTask(0, "wash", TRUE, <<[type |-> "daily", time |-> "09:00"]>>,
            <<toISOString(At(2024, 0, 5, 10))>>),
     mkTask(0, "mop", TRUE, <<[type |-> "weekly_friday", time |-> "09:00"]>>,
            <<toISOString(At(2024, 0, 5, 10))>>),
     mkTask(0, "dust", TRUE, << >>, <<toISOString(At(2024, 0, 5, 10))>>),
     mkTask(0, "iron", FALSE, <<[type |-> "daily", time |-> "09:00"]>>, << >>),
     mkTask(0, "sweep", TRUE, <<[time |-> "09:00"]>>, <<toISOString(At(2024, 0, 5, 10))>>),
     mkTask(0, "rinse", TRUE, <<[type |-> "fortnightly_blah", time |-> "09:00"]>>,
            <<toISOString(At(2024, 0, 2, 9))>>)}

\* ids as positions: the ids of a list are distinct
WithIds(list) == [i \in 1..Len(list) |-> SetField(list[i], "id", i)]

MixedLists == {WithIds(l) : l \in UNION {[1..n -> NarrowTasks] : n \in 2..MaxLen}}

InputLists == {<< >>} \cup {<<w>> : w \in WideTasks} \cup MixedLists

----------------------------------------------------------------------------
(* EvalSpec: the evaluator as a function of (list, instant), applied once  *)
(* and then to its own result at the same instant                          *)

EvalInit ==
    /\ tasks \in InputLists
    /\ now \in EvalInstants
    /\ out1 = NotRun
    /\ out2 = NotRun
    /\ outU = NotRun
    /\ stored = << >>
    /\ nextId = 1
    /\ loading = << >>
    /\ alert = << >>
    /\ saved = FALSE

\* variant: the evaluator writes the reset into the list it was given
EvaluateInPlace ==
    /\ out1 = NotRun
    /\ out1' = checkAndResetTasks(tasks, now)
    /\ tasks' = IF out1'.status = "returned" THEN out1'.value ELSE tasks
    /\ UNCHANGED <<stored, now, nextId, loading, alert, saved, out2, outU>>

Evaluate ==
    /\ out1 = NotRun
    /\ out1' = checkAndResetTasks(tasks, now)
    /\ UNCHANGED <<tasks, stored, now, nextId, loading, alert, saved, out2, outU>>

EvaluateAgain ==
    /\ out1.status = "returned"
    /\ out2 = NotRun
    /\ out2' = checkAndResetTasks(out1.value, now)
    /\ UNCHANGED <<tasks, stored, now, nextId, loading, alert, saved, out1, outU>>

EvalNext == Evaluate \/ EvaluateAgain

EvalSpec == EvalInit /\ [][EvalNext]_vars

----------------------------------------------------------------------------
(* UtilSpec: the scheduling utility and the evaluator of App.tsx, each     *)
(* applied once to the same list at the same instant                       *)

\* the kinds the switch of the utility names, 'none', and a kind it does not name
UtilKinds ==
    {"none", "daily", "weekly", "weekly_monday", "weekly_friday", "biweekly", "monthly",
     "second_friday", "weekdays", "weekends", "yearly"}

UtilWeeklyKinds == {"weekly", "weekly_monday", "weekly_friday"}

\* values of the optional time field
UtilTimes == {"09:00", "10:00"}

\* values of schedule.dayOfWeek: Sunday, Monday and Friday
UtilDaysOfWeek == {0, 1, 5}

\* values of schedule.dayOfMonth
UtilDaysOfMonth == {1, 15, 31}

UtilSchedules ==
    {[type |-> k, time |-> "09:00"] : k \in UtilKinds}
        \cup {[type |-> k, time |-> tm, dayOfWeek |-> d] :
                  k \in UtilWeeklyKinds, tm \in UtilTimes, d \in UtilDaysOfWeek}
        \cup {[type |-> k, dayOfWeek |-> d] : k \in UtilWeeklyKinds, d \in UtilDaysOfWeek}
        \cup {[type |-> "monthly", time |-> "09:00", dayOfMonth |-> d] : d \in UtilDaysOfMonth}

\* evaluation instants and completion instants of UtilSpec (local wall clock)
UtilInstants ==
    {At(2024, 0, 1, 9),     \* Mon 1 Jan 2024
     At(2024, 0, 5, 8),     \* Fri 5 Jan 2024 08:00
     At(2024, 0, 5, 9),
     At(2024, 0, 5, 10),
     At(2024, 0, 6, 11),    \* Sat
     At(2024, 0, 12, 9),    \* second Friday of January 2024
     At(2024, 0, 14, 9),    \* Sun 14 Jan
     At(2024, 0, 19, 9),    \* Fri, 14 days less one hour after 5 Jan 10:00
     At(2024, 0, 19, 10),   \* Fri, 14 days after
     At(2024, 0, 31, 9),    \* Wed 31 Jan
     At(2024, 1, 1, 9),     \* Thu 1 Feb 2024
     At(2024, 1, 2, 9),     \* Fri 2 Feb 2024
     At(2024, 1, 28, 9)}    \* Wed 28 Feb 2024

UtilLastInputs == {<<toISOString(t)>> : t \in UtilInstants} \cup {<< >>}

UtilTasks ==
    {mkTask(1, "wash", c, <<sch>>, lst) :
         c \in BOOLEAN, sch \in UtilSchedules, lst \in UtilLastInputs}
        \cup {mkTask(1, "wash", TRUE, << >>, lst) : lst \in UtilLastInputs}

UtilLists == {<< >>} \cup {<<w>> : w \in UtilTasks}

UtilInit ==
    /\ tasks \in UtilLists
    /\ now \in UtilInstants
    /\ out1 = NotRun
    /\ out2 = NotRun
    /\ outU = NotRun
    /\ stored = << >>
    /\ nextId = 1
    /\ loading = << >>
    /\ alert = << >>
    /\ saved = FALSE

UtilEvaluate ==
    /\ outU = NotRun
    /\ outU' = utilCheckAndResetTasks(tasks, now)
    /\ UNCHANGED <<tasks, stored, now, nextId, loading, alert, saved, out1, out2>>

UtilNext == UtilEvaluate \/ Evaluate

UtilSpec == UtilInit /\ [][UtilNext]_vars

----------------------------------------------------------------------------
(* Spec: the application.  Its handlers run to completion one at a time;   *)
(* loadTasks is suspended once, at its await of getItem, and the delete    *)
(* dialog keeps the list its handler closed over until it is answered.     *)

\* kinds chosen in the schedule picker
FormKinds == {"none", "daily", "weekly_friday"}

\* values typed in the time input
FormTimes == {"09:00"}

\* values typed in the text input (non-blank after trim)
FormTexts == {"wash"}

\* instants at which the clock is read
AppInstants ==
    {At(2024, 0, 5, 8),     \* Fri 5 Jan 2024 08:00
     At(2024, 0, 5, 10),
     At(2024, 0, 6, 11)}    \* Sat, 25 h later

Init ==
    /\ tasks = << >>
    /\ stored = << >>
    /\ now \in AppInstants
    /\ nextId = 1
    /\ loading = << << >> >>
    /\ alert = << >>
    /\ saved = FALSE
    /\ out1 = NotRun
    /\ out2 = NotRun
    /\ outU = NotRun

\* AsyncStorage.setItem('tasks', JSON.stringify(newTasks)): the item holds the list
\* without its undefined fields, which is the list as modelled
saveTasks(newTasks) ==
    /\ stored' = <<newTasks>>
    /\ saved' = TRUE

\* the application is started again: fresh component state, loadTasks issues getItem
Mount ==
    /\ tasks' = << >>
    /\ loading' = <<stored>>
    /\ alert' = << >>
    /\ UNCHANGED <<stored, now, nextId, out1, out2, outU>>
    /\ saved' = FALSE

\* variant: the list evaluated at load is written back to storage
loadTasksSaving ==
    /\ loading # << >>
    /\ loading' = << >>
    /\ LET item == loading[1]
       IN  IF item = << >> THEN UNCHANGED <<tasks, stored>> /\ saved' = FALSE
           ELSE LET resetTasks == checkAndResetTasks(item[1], now)
                IN  IF resetTasks.status = "returned"
                    THEN tasks' = resetTasks.value /\ saveTasks(resetTasks.value)
                    ELSE UNCHANGED <<tasks, stored>> /\ saved' = FALSE
    /\ UNCHANGED <<now, nextId, alert, out1, out2, outU>>

\* loadTasks after its await: parse, evaluate, setTasks; an exception is caught and logged
loadTasks ==
    /\ loading # << >>
    /\ loading' = << >>
    /\ LET item == loading[1]
       IN  IF item = << >> THEN UNCHANGED tasks
           ELSE LET resetTasks == checkAndResetTasks(item[1], now)
                IN  IF resetTasks.status = "returned" THEN tasks' = resetTasks.value
                    ELSE UNCHANGED tasks
    /\ UNCHANGED <<stored, now, nextId, alert, out1, out2, outU>>
    /\ saved' = FALSE

\* variant: every run of the check saves its result
checkScheduledResetsAlwaysSaving ==
    /\ LET reset == checkAndResetTasks(tasks, now)
       IN  IF reset.status = "returned"
           THEN tasks' = reset.value /\ saveTasks(reset.value)
           ELSE UNCHANGED <<tasks, stored>> /\ saved' = FALSE
    /\ UNCHANGED <<now, nextId, loading, alert, out1, out2, outU>>

\* the interval callback: setTasks(prev => ...), saving when the list changed
checkScheduledResets ==
    /\ LET reset == checkAndResetTasks(tasks, now)
       IN  IF reset.status = "returned"
           THEN /\ tasks' = reset.value
                /\ IF reset.value # tasks THEN saveTasks(reset.value)
                   ELSE /\ UNCHANGED stored
                        /\ saved' = FALSE
           ELSE /\ UNCHANGED <<tasks, stored>>
                /\ saved' = FALSE
    /\ UNCHANGED <<now, nextId, loading, alert, out1, out2, outU>>

addTask(text, scheduleType, scheduleTime) ==
    /\ alert = << >>
    /\ nextId <= MaxAdds
    /\ LET schedule == IF scheduleType = "none" THEN << >>
                       ELSE <<[type |-> scheduleType, time |-> scheduleTime]>>
           task == mkTask(nextId, text, FALSE, schedule, << >>)
           updated == <<task>> \o tasks
       IN  /\ tasks' = updated
           /\ saveTasks(updated)
    /\ nextId' = nextId + 1
    /\ UNCHANGED <<now, loading, alert, out1, out2, outU>>

\* variant: completing a task writes no stamp
toggledWithoutStamp(t, instant) ==
    IF ~t.completed
    THEN SetField(t, "completed", TRUE)
    ELSE DelField(SetField(t, "completed", FALSE), "lastCompletedAt")

\* { ...t, completed: !t.completed,
\*   lastCompletedAt: !t.completed ? new Date().toISOString() : undefined }
toggled(t, instant) ==
    IF ~t.completed
    THEN SetField(SetField(t, "completed", TRUE), "lastCompletedAt", toISOString(instant))
    ELSE DelField(SetField(t, "completed", FALSE), "lastCompletedAt")

toggleTask(id) ==
    /\ alert = << >>
    /\ LET updated == [i \in 1..Len(tasks) |->
                           IF tasks[i].id = id THEN toggled(tasks[i], now) ELSE tasks[i]]
       IN  /\ tasks' = updated
           /\ saveTasks(updated)
    /\ UNCHANGED <<now, nextId, loading, alert, out1, out2, outU>>

\* deleteTask shows the dialog; its 'Delete' handler closes over the list of this render
deleteTask(id) ==
    /\ alert = << >>
    /\ alert' = <<[id |-> id, tasks |-> tasks]>>
    /\ UNCHANGED <<tasks, stored, now, nextId, loading, out1, out2, outU>>
    /\ saved' = FALSE

RECURSIVE filterOut(_, _)
filterOut(list, id) ==
    IF list = << >> THEN << >>
    ELSE IF Head(list).id # id THEN <<Head(list)>> \o filterOut(Tail(list), id)
    ELSE filterOut(Tail(list), id)

confirmDelete ==
    /\ alert # << >>
    /\ LET updated == filterOut(alert[1].tasks, alert[1].id)
       IN  /\ tasks' = updated
           /\ saveTasks(updated)
    /\ alert' = << >>
    /\ UNCHANGED <<now, nextId, loading, out1, out2, outU>>

cancelDelete ==
    /\ alert # << >>
    /\ alert' = << >>
    /\ UNCHANGED <<tasks, stored, now, nextId, loading, out1, out2, outU>>
    /\ saved' = FALSE

\* editTask(task) fills the form, updateTask writes it back to the task of that id
updateTask(id, text, scheduleType, scheduleTime) ==
    /\ alert = << >>
    /\ LET updated == [i \in 1..Len(tasks) |->
                IF tasks[i].id = id
                THEN IF scheduleType = "none"
                     THEN DelField(SetField(tasks[i], "text", text), "schedule")
                     ELSE SetField(SetField(tasks[i], "text", text), "schedule",
                                   [type |-> scheduleType, time |-> scheduleTime])
                ELSE tasks[i]]
       IN  /\ tasks' = updated
           /\ saveTasks(updated)
    /\ UNCHANGED <<now, nextId, loading, alert, out1, out2, outU>>

\* time passes
Tick ==
    /\ \E t \in AppInstants : t > now /\ now' = t
    /\ UNCHANGED <<tasks, stored, nextId, loading, alert, saved, out1, out2, outU>>

TaskIds == {tasks[i].id : i \in 1..Len(tasks)}

Next ==
    \/ Mount
    \/ loadTasks
    \/ checkScheduledResets
    \/ \E text \in FormTexts, k \in FormKinds, tm \in FormTimes : addTask(text, k, tm)
    \/ \E id \in TaskIds : toggleTask(id)
    \/ \E id \in TaskIds : deleteTask(id)
    \/ confirmDelete
    \/ cancelDelete
    \/ \E id \in TaskIds, text \in FormTexts, k \in FormKinds, tm \in FormTimes :
           updateTask(id, text, k, tm)
    \/ Tick

Spec == Init /\ [][Next]_vars

----------------------------------------------------------------------------
(* Properties of the evaluator (EvalSpec)                                  *)

Positions == 1..Len(tasks)

\* the evaluator returned a list for the input `tasks`
Evaluated == out1.status = "returned"

\* the task returned at position i is the input task with `completed` cleared
WasReset(i) == tasks[i].completed /\ ~out1.value[i].completed

\* C1: idempotence: evaluating the result of an evaluation again at the same instant
\* returns an equal list
C1_Idempotent == out2 # NotRun => out2 = out1

\* the second pass ran on a list in which the first pass had reset a task
C1_Witness ==
    /\ out2.status = "returned"
    /\ \E i \in 1..Len(out1.value) : i <= Len(tasks) /\ WasReset(i)

\* C2: no-op conditions: a task without schedule, of kind 'none', not completed or
\* without lastCompletedAt is returned with every field unchanged
C2_NoOp ==
    Evaluated =>
        /\ Len(out1.value) >= Len(tasks)
        /\ \A i \in Positions :
               (\/ ~Has(tasks[i], "schedule")
                \/ (Has(tasks[i].schedule, "type") /\ tasks[i].schedule.type = "none")
                \/ ~tasks[i].completed
                \/ ~Has(tasks[i], "lastCompletedAt"))
                   => out1.value[i] = tasks[i]

\* a completed task that was never stamped, of a kind whose period has begun (a Saturday,
\* for 'weekly_friday'), has been evaluated
C2_Witness ==
    /\ Evaluated
    /\ getDay(now) = 6
    /\ \E i \in Positions :
           /\ tasks[i].completed
           /\ ~Has(tasks[i], "lastCompletedAt")
           /\ Has(tasks[i], "schedule")
           /\ Has(tasks[i].schedule, "type")
           /\ tasks[i].schedule.type = "weekly_friday"

\* C3: a reset changes `completed` only: every other field, lastCompletedAt included,
\* is the input's, and no field is added or removed
C3_ResetFrame ==
    Evaluated =>
        \A i \in Positions :
            i <= Len(out1.value) /\ out1.value[i] # tasks[i] =>
                /\ DOMAIN out1.value[i] = DOMAIN tasks[i]
                /\ \A f \in DOMAIN tasks[i] \ {"completed"} : out1.value[i][f] = tasks[i][f]
                /\ out1.value[i].completed = FALSE

\* a task was reset
C3_Witness == Evaluated /\ \E i \in Positions : i <= Len(out1.value) /\ WasReset(i)

\* C4: the output has the input's length and, position by position, the input's ids
C4_OrderCardinality ==
    Evaluated =>
        /\ Len(out1.value) = Len(tasks)
        /\ \A i \in Positions : out1.value[i].id = tasks[i].id

\* a list of several tasks was evaluated and a task that is not the last one was reset
C4_Witness ==
    /\ Evaluated
    /\ Len(tasks) >= 2
    /\ Len(out1.value) = Len(tasks)
    /\ WasReset(1)

\* a task the evaluator measures: completed, stamped, with a schedule whose kind is a string
\* other than 'none'
Measured(task) ==
    /\ task.completed
    /\ Has(task, "lastCompletedAt")
    /\ Has(task, "schedule")
    /\ Has(task.schedule, "type")
    /\ task.schedule.type # "none"

\* the recurrence catalog: the presets and the legacy 'weekly'
CatalogKinds == PresetKinds \cup {"weekly"}

NamedKinds ==
    {"daily", "weekdays", "weekends", "biweekly", "biweekly_even", "biweekly_odd",
     "monthly", "monthly_15", "monthly_last", "quarterly", "yearly"}

\* the prefixes of the day-of-week and Nth-weekday branches
DayPrefixes == {"weekly_", "first_", "second_", "third_", "fourth_", "last_"}

EndsWithDayName(k) == \E i \in 1..7 : endsWith(k, DayNames[i])

\* a kind the evaluator gives a rule to: a named kind, or a day prefix with a weekday
\* name at the end
RuledKind(k) ==
    \/ k \in NamedKinds
    \/ (\E p \in DayPrefixes : startsWith(k, p)) /\ EndsWithDayName(k)

C8_MalformedTolerated ==
    out1 # NotRun =>
        \A i \in Positions :
            (/\ tasks[i].completed
             /\ Has(tasks[i], "lastCompletedAt")
             /\ Has(tasks[i], "schedule")
             /\ ~Has(tasks[i].schedule, "type"))
                => /\ Evaluated
                   /\ Len(out1.value) = Len(tasks)
                   /\ out1.value[i] = tasks[i]

\* "HH:MM": two digits, a colon, two digits
IsHHMM(s) ==
    /\ Len(s) = 5
    /\ \A i \in {1, 2, 4, 5} : IsDigit(SubSeq(s, i, i))
    /\ SubSeq(s, 3, 3) = ":"

\* C9 as stated: for a day-of-week kind whose time is absent or not "HH:MM", on the target
\* weekday the task is reset iff the local hour is at least 9
C9_DefaultHourNine ==
    Evaluated =>
        \A i \in Positions :
            (/\ Measured(tasks[i])
             /\ tasks[i].schedule.type \in WeeklyNamedKinds
             /\ (Has(tasks[i].schedule, "time") => ~IsHHMM(tasks[i].schedule.time))
             /\ \E d \in 1..7 : /\ endsWith(tasks[i].schedule.type, DayNames[d])
                                /\ getDay(now) = d - 1)
                => (WasReset(i) <=> getHours(now) >= 9)

\* C10: a measured 'daily' task is reset iff more than 24 hours separate the evaluation
\* from the instant stamped in lastCompletedAt
C10_DailyStrictly24h ==
    Evaluated =>
        \A i \in Positions : \A l \in EvalInstants :
            (/\ Measured(tasks[i])
             /\ tasks[i].schedule.type = "daily"
             /\ tasks[i].lastCompletedAt = toISOString(l))
                => (WasReset(i) <=> now - l > 24)

\* a 'daily' task was evaluated exactly 24 hours after its completion and was not reset
C10_Witness ==
    /\ Evaluated
    /\ \E i \in Positions :
           /\ Measured(tasks[i])
           /\ tasks[i].schedule.type = "daily"
           /\ tasks[i].lastCompletedAt = toISOString(now - 24)
           /\ out1.value[i] = tasks[i]

\* the instant stamped in the lastCompletedAt of a measured task
LastOf(task) == parseISO(task.lastCompletedAt)

\* hour of an "HH:MM" string
HourOfHHMM(s) == DigitValue(SubSeq(s, 1, 1)) * 10 + DigitValue(SubSeq(s, 2, 2))

\* threshold hour of a rule: the hour of its time, 9 when it has none
ThresholdOf(schedule) == IF Has(schedule, "time") THEN HourOfHHMM(schedule.time) ELSE 9

\* the weekday a kind weekly_<day> encodes
EncodedDay(k) == (CHOOSE d \in 1..7 : k = "weekly_" \o DayNames[d]) - 1

\* days since the most recent occurrence of weekday `target`
Delta(t, target) == (getDay(t) - target + 7) % 7

\* C11: weekly by name: a measured task of kind weekly_<day>, with a time that is absent or
\* "HH:MM", is reset iff delta > 0, or delta = 0 and the local hour is at least the
\* threshold hour
C11_WeeklyByName ==
    Evaluated =>
        \A i \in Positions :
            (/\ Measured(tasks[i])
             /\ tasks[i].schedule.type \in WeeklyNamedKinds
             /\ (Has(tasks[i].schedule, "time") => IsHHMM(tasks[i].schedule.time)))
                => LET delta == Delta(now, EncodedDay(tasks[i].schedule.type))
                   IN  WasReset(i) <=>
                           \/ delta > 0
                           \/ delta = 0 /\ getHours(now) >= ThresholdOf(tasks[i].schedule)

\* a 'weekly_friday' task with time "10:00" was evaluated on a Friday at 10:00 and reset
C11_Witness ==
    /\ Evaluated
    /\ getDay(now) = 5
    /\ getHours(now) = 10
    /\ \E i \in Positions :
           /\ Measured(tasks[i])
           /\ tasks[i].schedule.type = "weekly_friday"
           /\ Has(tasks[i].schedule, "time")
           /\ tasks[i].schedule.time = "10:00"
           /\ WasReset(i)

C14_BiweeklyFourteenDays ==
    Evaluated =>
        \A i \in Positions :
            Measured(tasks[i]) /\ tasks[i].schedule.type = "biweekly"
                => (WasReset(i) <=> now - LastOf(tasks[i]) >= 14 * 24)

\* a 'biweekly' task was evaluated one hour short of 14 days after its completion, on the
\* fourteenth calendar day, and not reset
C14_Witness ==
    /\ Evaluated
    /\ \E i \in Positions :
           /\ Measured(tasks[i])
           /\ tasks[i].schedule.type = "biweekly"
           /\ now - LastOf(tasks[i]) = 14 * 24 - 1
           /\ out1.value[i] = tasks[i]

\* 1 January, 00:00 local, of the year of instant t
JanuaryFirst(t) == At(getFullYear(t), 0, 1, 0)

\* the least n with n weeks >= the time since 1 January of the instant's own year
WeekNumber(t) ==
    CHOOSE n \in 0..54 : /\ n * 7 * 24 >= t - JanuaryFirst(t)
                         /\ (n - 1) * 7 * 24 < t - JanuaryFirst(t)

OrdinalPrefixes == <<"first_", "second_", "third_", "fourth_">>

NthKinds ==
    {k \in PresetKinds \cup ForeignKinds :
         \E n \in 1..4, d \in 1..7 : k = OrdinalPrefixes[n] \o DayNames[d]}

OrdinalOf(k) == CHOOSE n \in 1..4 : startsWith(k, OrdinalPrefixes[n])

WeekdayOf(k) == (CHOOSE d \in 1..7 : endsWith(k, "_" \o DayNames[d])) - 1

\* day of month of the n-th occurrence of weekday wd in the month of instant t
NthOccurrence(t, wd, n) ==
    (CHOOSE d \in 1..7 : getDay(newDate(getFullYear(t), getMonth(t), d)) = wd) + 7 * (n - 1)

\* day of month of the last occurrence of weekday wd in the month of instant t
LastOccurrence(t, wd) ==
    CHOOSE d \in 1..DaysInMonth(getFullYear(t), getMonth(t)) :
        /\ getDay(newDate(getFullYear(t), getMonth(t), d)) = wd
        /\ d + 7 > DaysInMonth(getFullYear(t), getMonth(t))

OtherMonth(l, t) == getMonth(l) # getMonth(t) \/ getFullYear(l) # getFullYear(t)

\* C21: Nth weekday, N in first..fourth: a measured task is reset iff today's day of month
\* is at least D(current month) and lastCompletedAt lies in another month or year, or on
\* a day of month below D(its own month)
C21_NthWeekday ==
    Evaluated =>
        \A i \in Positions :
            Measured(tasks[i]) /\ tasks[i].schedule.type \in NthKinds
                => LET wd == WeekdayOf(tasks[i].schedule.type)
                       n  == OrdinalOf(tasks[i].schedule.type)
                       l  == LastOf(tasks[i])
                   IN  WasReset(i) <=>
                           /\ getDate(now) >= NthOccurrence(now, wd, n)
                           /\ \/ OtherMonth(l, now)
                              \/ getDate(l) < NthOccurrence(l, wd, n)

\* a 'second_friday' task completed in the current month on or after the second Friday was
\* evaluated later in that month and not reset
C21_Witness ==
    /\ Evaluated
    /\ \E i \in Positions :
           /\ Measured(tasks[i])
           /\ tasks[i].schedule.type = "second_friday"
           /\ ~OtherMonth(LastOf(tasks[i]), now)
           /\ getDate(LastOf(tasks[i])) >= NthOccurrence(now, 5, 2)
           /\ LastOf(tasks[i]) < now
           /\ out1.value[i] = tasks[i]

\* the last_<weekday> kinds of the catalog
LastWeekdayKinds == {"last_sunday", "last_monday", "last_friday"}

\* C22 as stated: a measured last_<weekday> task is reset iff today's day of month is at
\* least L(current month) and lastCompletedAt lies in another month or year, or on a day
\* of month below L(its own month)
C22_LastWeekday ==
    Evaluated =>
        \A i \in Positions :
            Measured(tasks[i]) /\ tasks[i].schedule.type \in LastWeekdayKinds
                => LET wd == WeekdayOf(tasks[i].schedule.type)
                       l  == LastOf(tasks[i])
                   IN  WasReset(i) <=>
                           /\ getDate(now) >= LastOccurrence(now, wd)
                           /\ \/ OtherMonth(l, now)
                              \/ getDate(l) < LastOccurrence(l, wd)

\* C23: a measured 'quarterly' task is reset iff floor(month / 3) of now differs from that
\* of lastCompletedAt
C23_Quarterly ==
    Evaluated =>
        \A i \in Positions :
            Measured(tasks[i]) /\ tasks[i].schedule.type = "quarterly"
                => (WasReset(i) <=>
                        getMonth(now) \div 3 # getMonth(LastOf(tasks[i])) \div 3)

\* a 'quarterly' task completed in January was evaluated in March of the same year and
\* not reset
C23_Witness ==
    /\ Evaluated
    /\ getMonth(now) = 2
    /\ \E i \in Positions :
           /\ Measured(tasks[i])
           /\ tasks[i].schedule.type = "quarterly"
           /\ getMonth(LastOf(tasks[i])) = 0
           /\ getFullYear(LastOf(tasks[i])) = getFullYear(now)
           /\ out1.value[i] = tasks[i]

\* C24: the evaluator leaves its input alone: the list given to it, and every task of it,
\* has after the call the value it had before
C24_InputUntouched == [][Evaluate => tasks' = tasks]_vars

\* a list of two tasks was evaluated, the result has its second task reset, and the input
\* still has it completed
C24_Witness ==
    /\ Evaluated
    /\ Len(tasks) = 2
    /\ Len(out1.value) = 2
    /\ tasks[2].completed
    /\ ~out1.value[2].completed

----------------------------------------------------------------------------
(* Properties of the scheduling utility and of the two evaluators side by  *)
(* side (UtilSpec)                                                         *)

\* the utility returned a list for the input `tasks`
UtilEvaluated == outU.status = "returned"

\* the utility returned the task at position i with `completed` cleared
WasResetU(i) == tasks[i].completed /\ ~outU.value[i].completed

\* C12 as stated: a measured task of kind 'weekly' with dayOfWeek = d is reset by the
\* utility iff delta > 0, or delta = 0 and the local hour is at least the threshold hour
C12_LegacyWeekly ==
    UtilEvaluated =>
        \A i \in Positions :
            (/\ Measured(tasks[i])
             /\ tasks[i].schedule.type = "weekly"
             /\ Has(tasks[i].schedule, "dayOfWeek"))
                => LET delta == Delta(now, tasks[i].schedule.dayOfWeek)
                   IN  WasResetU(i) <=>
                           \/ delta > 0
                           \/ delta = 0 /\ getHours(now) >= ThresholdOf(tasks[i].schedule)

\* a measured 'biweekly' task
BiweeklyTask(l) ==
    mkTask(1, "wash", TRUE, <<[type |-> "biweekly", time |-> "09:00"]>>, <<toISOString(l)>>)

\* C15 as stated: for some evaluation instant (the current one or any other the model
\* draws) and some lastCompletedAt, the utility and the evaluator of App.tsx decide
\* differently on the same measured 'biweekly' task
C15_VariantsDisagree ==
    \E t \in UtilInstants \cup {now}, l \in UtilInstants :
        utilCheckAndResetTasks(<<BiweeklyTask(l)>>, t) # checkAndResetTasks(<<BiweeklyTask(l)>>, t)

\* elapsed hours swept around the 14-day boundary and the 7-, 21- and 28-day marks
ElapsedSweep == (0 - 2 * 24)..(29 * 24)

\* C15 (amended): the two variants decide alike: on every measured 'biweekly' task both
\* evaluators return the same task, and the two predicates agree on every elapsed time
C15_VariantsAgree ==
    (Evaluated /\ UtilEvaluated) =>
        \A i \in Positions :
            Measured(tasks[i]) /\ tasks[i].schedule.type = "biweekly"
                => /\ out1.value[i] = outU.value[i]
                   /\ WasReset(i) <=> now - LastOf(tasks[i]) >= 14 * 24
                   /\ \A e \in ElapsedSweep :
                          resetBiweekly(now + e, now) <=> utilResetBiweekly(now + e, now)

\* both evaluators were applied to a 'biweekly' task exactly 14 days after its completion,
\* and both reset it
C15_Witness ==
    /\ Evaluated
    /\ UtilEvaluated
    /\ \E i \in Positions :
           /\ Measured(tasks[i])
           /\ tasks[i].schedule.type = "biweekly"
           /\ now - LastOf(tasks[i]) = 14 * 24
           /\ WasReset(i)
           /\ WasResetU(i)

\* instant l lies in a month before the month of instant t
InEarlierMonth(l, t) ==
    \/ getFullYear(l) < getFullYear(t)
    \/ getFullYear(l) = getFullYear(t) /\ getMonth(l) < getMonth(t)

\* C17 as stated: a measured task of kind 'monthly' with dayOfMonth = 1 whose
\* lastCompletedAt lies in an earlier month is reset by the application's evaluator when
\* evaluated on the 1st, and not reset when evaluated on the 2nd
C17_MonthlyFirstAsTested ==
    Evaluated =>
        \A i \in Positions :
            (/\ Measured(tasks[i])
             /\ tasks[i].schedule.type = "monthly"
             /\ Has(tasks[i].schedule, "dayOfMonth")
             /\ tasks[i].schedule.dayOfMonth = 1
             /\ InEarlierMonth(LastOf(tasks[i]), now))
                => /\ getDate(now) = 1 => WasReset(i)
                   /\ getDate(now) = 2 => ~WasReset(i)

\* C29: for kind 'second_friday' the evaluator of App.tsx and the utility return the same
\* task, for every evaluation instant and every lastCompletedAt not later than it
C29_SecondFridayAgree ==
    (Evaluated /\ UtilEvaluated) =>
        \A i \in Positions :
            (/\ Measured(tasks[i])
             /\ tasks[i].schedule.type = "second_friday"
             /\ LastOf(tasks[i]) <= now)
                => out1.value[i] = outU.value[i]

\* both evaluators were applied to a 'second_friday' task completed on the first Friday of
\* the month, on or after the second Friday of that month, and both reset it
C29_Witness ==
    /\ Evaluated
    /\ UtilEvaluated
    /\ \E i \in Positions :
           /\ Measured(tasks[i])
           /\ tasks[i].schedule.type = "second_friday"
           /\ ~OtherMonth(LastOf(tasks[i]), now)
           /\ getDate(LastOf(tasks[i])) = NthOccurrence(now, 5, 1)
           /\ getDate(now) >= NthOccurrence(now, 5, 2)
           /\ WasReset(i)
           /\ WasResetU(i)

----------------------------------------------------------------------------
(* Properties of the application (Spec)                                    *)

\* C5 as stated: a toggle to completed stamps lastCompletedAt with the current instant,
\* and a toggle away from completed leaves the stamp in place
C5_ToggleKeepsStamp ==
    [][\A id \in TaskIds : toggleTask(id) =>
          \A i \in 1..Len(tasks) :
              tasks[i].id = id =>
                  /\ ~tasks[i].completed =>
                         /\ tasks'[i].completed
                         /\ Has(tasks'[i], "lastCompletedAt")
                         /\ tasks'[i].lastCompletedAt = toISOString(now)
                  /\ tasks[i].completed =>
                         /\ ~tasks'[i].completed
                         /\ Has(tasks'[i], "lastCompletedAt")
                         /\ tasks'[i].lastCompletedAt = tasks[i].lastCompletedAt]_vars

\* C6 as stated: a task stamped at the current instant is completed: no evaluation at the
\* instant of the completion resets it
C6_NoResetAtCompletionInstant ==
    \A i \in 1..Len(tasks) :
        (Has(tasks[i], "lastCompletedAt") /\ tasks[i].lastCompletedAt = toISOString(now))
            => tasks[i].completed

\* a task a reset has left behind: not completed, with the stamp of its last completion
ResetTask(task) == ~task.completed /\ Has(task, "lastCompletedAt")

\* C25: the periodic check puts the evaluator's result in memory and saves it iff it
\* differs from the list it replaces, that is iff a task was reset; otherwise storage and
\* the content of the list are as before
C25_SaveIffReset ==
    [][checkScheduledResets =>
          /\ Returned(tasks') = checkAndResetTasks(tasks, now)
          /\ saved' <=> tasks' # tasks
          /\ saved' <=> \E i \in 1..Len(tasks) : tasks[i].completed /\ ~tasks'[i].completed
          /\ saved' => stored' = <<tasks'>>
          /\ ~saved' => stored' = stored /\ tasks' = tasks]_vars

\* the handler that ran last saved, and storage and memory hold the same list with a task
\* that a reset left behind
C25_Witness ==
    /\ saved
    /\ stored = <<tasks>>
    /\ loading = << >>
    /\ \E i \in 1..Len(tasks) : ResetTask(tasks[i])

\* C26: every completed task, in memory and in storage, has a lastCompletedAt
C26_CompletedIsStamped ==
    /\ \A i \in 1..Len(tasks) : tasks[i].completed => Has(tasks[i], "lastCompletedAt")
    /\ stored # << >> =>
           \A i \in 1..Len(stored[1]) :
               stored[1][i].completed => Has(stored[1][i], "lastCompletedAt")

\* the list holds a completed task with its stamp and a task never completed
C26_Witness ==
    /\ \E i \in 1..Len(tasks) : tasks[i].completed /\ Has(tasks[i], "lastCompletedAt")
    /\ \E i \in 1..Len(tasks) : ~tasks[i].completed /\ ~Has(tasks[i], "lastCompletedAt")

\* C30: loadTasks writes nothing to storage (no step that changes storage or issues a
\* save is a step of loadTasks); storage changes only by addTask, toggleTask, updateTask, a
\* confirmed deleteTask, or a periodic check that resets a task; a periodic check that
\* resets nothing leaves storage as it is (no step that changes storage and keeps the list
\* in memory is a step of the periodic check)
C30_LoadDoesNotSave ==
    [][/\ (stored' # stored \/ saved') => ~loadTasks
       /\ stored' # stored =>
              \/ \E text \in FormTexts, k \in FormKinds, tm \in FormTimes : addTask(text, k, tm)
              \/ \E id \in TaskIds : toggleTask(id)
              \/ \E id \in TaskIds, text \in FormTexts, k \in FormKinds, tm \in FormTimes :
                     updateTask(id, text, k, tm)
              \/ confirmDelete
              \/ /\ checkScheduledResets
                 /\ \E i \in 1..Len(tasks) : tasks[i].completed /\ ~tasks'[i].completed
       /\ (stored' # stored /\ tasks' = tasks) => ~checkScheduledResets]_vars

\* after a load that reset a task, memory has the task not completed and storage still
\* has it completed
C30_Witness ==
    /\ loading = << >>
    /\ ~saved
    /\ stored # << >>
    /\ Len(stored[1]) = Len(tasks)
    /\ \E i \in 1..Len(tasks) :
           /\ ResetTask(tasks[i])
           /\ stored[1][i].id = tasks[i].id
           /\ stored[1][i].completed

====
